---------------------------- MODULE Spec2Model ----------------------------
(***************************************************************************)
(* A model of m3u8_download/m3u8_dl.py: the M3U8Downloader pipeline        *)
(* (parse -> download -> merge -> clean) and the process that runs it.     *)
(*                                                                         *)
(* Text (URLs, playlist lines, file names) is modelled by TLA+ strings,    *)
(* bytes objects by sequences of numbers in 0..255.  The network and the   *)
(* playlist server are the environment: every GET chooses its outcome.     *)
(* The filesystem outlives a process, so a later invocation finds what an  *)
(* earlier one left behind.                                                *)
(***************************************************************************)
EXTENDS Integers, Sequences, FiniteSets, TLC

(***************************************************************************)
(* str primitives                                                          *)
(***************************************************************************)

\* An operator whose argument is a call is written over a bound variable
\* (v \in {s}), so that the call is evaluated once, as Python evaluates the
\* argument of a call once.

\* s[i] of a Python str, 1-based
Ch(s, i) == SubSeq(s, i, i)

\* str.startswith
StartsWith(s, p) == Len(s) >= Len(p) /\ SubSeq(s, 1, Len(p)) = p

\* str.endswith (the "*.ts" of Path.glob)
EndsWith(s, p) == Len(s) >= Len(p) /\ SubSeq(s, Len(s) - Len(p) + 1, Len(s)) = p

\* the characters str.strip() removes when called with no argument
IsSpace(c) == c \in {" ", "\t", "\r", "\n"}

\* the positions of s that hold a character str.strip() keeps
Kept(s) == UNION {{i \in 1..Len(v) : ~IsSpace(Ch(v, i))} : v \in {s}}

Min(S) == CHOOSE x \in UNION {{m \in T : \A y \in T : m <= y} : T \in {S}} : TRUE
Max(S) == CHOOSE x \in UNION {{m \in T : \A y \in T : m >= y} : T \in {S}} : TRUE

\* str.strip()
Strip(s) ==
    CHOOSE r \in {IF k = {} THEN "" ELSE SubSeq(s, Min(k), Max(k)) : k \in {Kept(s)}} : TRUE

\* str.strip('"')
StripQuotes(s) ==
    CHOOSE r \in {IF kept = {} THEN "" ELSE SubSeq(s, Min(kept), Max(kept)) :
                     kept \in {{i \in 1..Len(s) : Ch(s, i) # "\""}}} : TRUE

\* the positions of the character c in s
Positions(s, c) == UNION {{i \in 1..Len(v) : Ch(v, i) = c} : v \in {s}}

\* position of the last occurrence of the character c in s, 0 when there is none
LastIndexOf(s, c) == IF Positions(s, c) = {} THEN 0 ELSE Max(Positions(s, c))

\* position of the first occurrence of the character c in s, 0 when there is none
IndexOf(s, c) == IF Positions(s, c) = {} THEN 0 ELSE Min(Positions(s, c))

\* str.split(sep) for a one-character separator: a sequence of str
RECURSIVE Split(_, _)
Split(s, sep) ==
    CHOOSE r \in {IF i = 0 THEN <<v>>
                  ELSE <<SubSeq(v, 1, i - 1)>> \o Split(SubSeq(v, i + 1, Len(v)), sep) :
                      i \in {IndexOf(s, sep)}, v \in {s}} : TRUE

\* str.splitlines() on "\n"-separated text: no empty last line for a final "\n"
SplitLines(s) ==
    IF Len(s) = 0 THEN <<>>
    ELSE IF Ch(s, Len(s)) = "\n" THEN Split(SubSeq(s, 1, Len(s) - 1), "\n")
    ELSE Split(s, "\n")

\* url.rsplit("/", 1)[0]
RSplitHead(s) ==
    LET i == LastIndexOf(s, "/") IN IF i = 0 THEN s ELSE SubSeq(s, 1, i - 1)


(***************************************************************************)
(* bytes, hexadecimal and decimal conversions                              *)
(***************************************************************************)

HexDigits == "0123456789abcdef"
HexUpper == "0123456789ABCDEF"

IsHexDigit(c) == IndexOf(HexDigits, c) > 0 \/ IndexOf(HexUpper, c) > 0

HexVal(c) ==
    IF IndexOf(HexDigits, c) > 0 THEN IndexOf(HexDigits, c) - 1
    ELSE IndexOf(HexUpper, c) - 1

\* bytes.fromhex(s) accepts s: pairs of hexadecimal digits, white space
\* between the pairs skipped; anything else raises ValueError
RECURSIVE HexValid(_)
HexValid(s) ==
    \E v \in {s} :
        IF Len(v) = 0 THEN TRUE
        ELSE IF IsSpace(Ch(v, 1)) THEN HexValid(Tail(v))
        ELSE /\ Len(v) >= 2
             /\ IsHexDigit(Ch(v, 1))
             /\ IsHexDigit(Ch(v, 2))
             /\ HexValid(SubSeq(v, 3, Len(v)))

\* bytes.fromhex(s), for s with HexValid(s)
RECURSIVE FromHex(_)
FromHex(s) ==
    CHOOSE r \in {IF Len(v) = 0 THEN <<>>
                  ELSE IF IsSpace(Ch(v, 1)) THEN FromHex(Tail(v))
                  ELSE <<16 * HexVal(Ch(v, 1)) + HexVal(Ch(v, 2))>>
                           \o FromHex(SubSeq(v, 3, Len(v))) : v \in {s}} : TRUE

\* bytes.hex()
RECURSIVE ToHex(_)
ToHex(b) ==
    IF Len(b) = 0 THEN ""
    ELSE Ch(HexDigits, (Head(b) \div 16) + 1) \o Ch(HexDigits, (Head(b) % 16) + 1)
         \o ToHex(Tail(b))

\* str(n) for n >= 0
RECURSIVE Dec(_)
Dec(n) ==
    IF n < 10 THEN Ch(HexDigits, n + 1)
    ELSE Dec(n \div 10) \o Ch(HexDigits, (n % 10) + 1)

RECURSIVE ZeroPad(_, _)
ZeroPad(s, width) == IF Len(s) >= width THEN s ELSE ZeroPad("0" \o s, width)

\* the width of the format specification in f"{idx:06}.ts"
IndexWidth == 6

\* f"{idx:06}.ts"
StageName(idx) == ZeroPad(Dec(idx), IndexWidth) \o ".ts"

(***************************************************************************)
(* pathlib                                                                 *)
(***************************************************************************)

\* Path.with_suffix(suffix) on a file name: PurePath.suffix is the text from
\* the last "." on, unless that "." begins or ends the name
WithSuffix(name, suffix) ==
    LET i == LastIndexOf(name, ".")
    IN  IF i > 1 /\ i < Len(name) THEN SubSeq(name, 1, i - 1) \o suffix
        ELSE name \o suffix

\* temp_dir = self.output.with_suffix(".parts")
TempDir(out) == WithSuffix(out, ".parts")

\* the code points of the characters staging file names are made of, in order
NameChars == ".0123456789st"

Ord(c) == IndexOf(NameChars, c)

\* a < b for two str (the order sorted() puts the paths of one directory in)
RECURSIVE StrLess(_, _)
StrLess(a, b) ==
    IF Len(b) = 0 THEN FALSE
    ELSE IF Len(a) = 0 THEN TRUE
    ELSE IF Ch(a, 1) = Ch(b, 1) THEN StrLess(Tail(a), Tail(b))
    ELSE Ord(Ch(a, 1)) < Ord(Ch(b, 1))

\* sorted(names): the names of a set in ascending order
RECURSIVE SortedNames(_)
SortedNames(S) ==
    IF S = {} THEN <<>>
    ELSE LET m == CHOOSE x \in S : \A y \in S \ {x} : StrLess(x, y)
         IN  <<m>> \o SortedNames(S \ {m})

(***************************************************************************)
(* AES-128/CBC and PKCS#7 (Crypto.Cipher.AES, Crypto.Util.Padding.unpad)   *)
(***************************************************************************)

\* AES.block_size
BlockSize == 16

\* a ^ b on two bytes
RECURSIVE Xor(_, _)
Xor(a, b) ==
    IF a = 0 /\ b = 0 THEN 0
    ELSE ((a + b) % 2) + 2 * Xor(a \div 2, b \div 2)

\* the byte of the key that position i of a block meets
KeyByte(k, i) == k[((i - 1) % Len(k)) + 1]

\* AES.new(key, AES.MODE_CBC, iv=iv) raises ValueError unless the key is 16, 24
\* or 32 bytes long and the IV one block long
CipherAccepts(k, v) == Len(k) \in {16, 24, 32} /\ Len(v) = BlockSize

\* cipher.decrypt(data), for data of whole blocks: each block goes through the
\* block cipher and is combined with the ciphertext block before it (the IV for
\* the first).  The block cipher itself is a stand-in: a permutation of the
\* block's bytes that the key selects (the key byte subtracted modulo 256).
CbcDecrypt(k, v, data) ==
    [i \in 1..Len(data) |->
        Xor((data[i] + 256 - KeyByte(k, ((i - 1) % BlockSize) + 1)) % 256,
            IF i <= BlockSize THEN v[i] ELSE data[i - BlockSize])]

\* unpad(padded, block_size) accepts padded: not empty, whole blocks, the last
\* byte n in 1..block_size and the last n bytes all n; else ValueError
PadOk(padded) ==
    /\ Len(padded) > 0
    /\ Len(padded) % BlockSize = 0
    /\ LET n == padded[Len(padded)]
       IN  /\ n >= 1
           /\ n <= BlockSize
           /\ \A i \in (Len(padded) - n + 1)..Len(padded) : padded[i] = n

\* unpad(padded, block_size), for padded with PadOk(padded)
Unpad(padded) == SubSeq(padded, 1, Len(padded) - padded[Len(padded)])

\* DecryptOk with an unpad() that does not check the padding bytes
DecryptOk_NoPadCheck(k, v, data) ==
    /\ CipherAccepts(k, v)
    /\ Len(data) % BlockSize = 0
    /\ Len(data) > 0

\* whether self._decrypt(data) returns (it raises ValueError otherwise)
DecryptOk(k, v, data) ==
    /\ CipherAccepts(k, v)
    /\ Len(data) % BlockSize = 0
    /\ PadOk(CbcDecrypt(k, v, data))

\* self._decrypt(data), for data with DecryptOk
Decrypt(k, v, data) == Unpad(CbcDecrypt(k, v, data))

\* The packager's side (the environment): PKCS#7 padding and CBC encryption
\* with the same stand-in block cipher.
Pad(plain) ==
    LET n == BlockSize - (Len(plain) % BlockSize)
    IN  plain \o [i \in 1..n |-> n]

RECURSIVE CbcEncrypt(_, _, _)
CbcEncrypt(k, v, padded) ==
    IF Len(padded) = 0 THEN <<>>
    ELSE LET n == Len(padded) - BlockSize
             before == CbcEncrypt(k, v, SubSeq(padded, 1, n))
         IN  before \o
             [i \in 1..BlockSize |->
                 (Xor(padded[n + i], IF n = 0 THEN v[i] ELSE before[n - BlockSize + i])
                  + KeyByte(k, i)) % 256]

(***************************************************************************)
(* Optional[...] values                                                    *)
(***************************************************************************)

None == <<>>
Some(v) == <<v>>
IsSome(o) == Len(o) = 1
Get(o) == o[1]

\* the truth value Python gives an Optional[bytes]: None and b"" are false
Truthy(o) == IsSome(o) /\ Len(Get(o)) > 0

(***************************************************************************)
(* The playlist server (the environment).  A playlist is a sequence of     *)
(* entries: segment lines, key directives with their attribute list, and   *)
(* other lines (tags, comments, blank lines).  The server sends its text.  *)
(***************************************************************************)

Attr(name, value, quoted) == [name |-> name, value |-> value, quoted |-> quoted]

SegLine(text) == [kind |-> "seg", text |-> text, attrs |-> <<>>]
TagLine(text) == [kind |-> "tag", text |-> text, attrs |-> <<>>]
KeyLine(attrs) == [kind |-> "key", text |-> "", attrs |-> attrs]

RenderAttr(a) ==
    a.name \o "=" \o (IF a.quoted THEN "\"" \o a.value \o "\"" ELSE a.value)

RECURSIVE RenderAttrs(_)
RenderAttrs(attrs) ==
    IF Len(attrs) = 0 THEN ""
    ELSE IF Len(attrs) = 1 THEN RenderAttr(attrs[1])
    ELSE RenderAttr(attrs[1]) \o "," \o RenderAttrs(Tail(attrs))

RenderEntry(e) ==
    IF e.kind = "key" THEN "#EXT-X-KEY:" \o RenderAttrs(e.attrs) ELSE e.text

\* the text of the playlist document: one line per entry
RECURSIVE RenderDoc(_)
RenderDoc(pl) ==
    IF Len(pl) = 0 THEN ""
    ELSE RenderEntry(pl[1]) \o "\n" \o RenderDoc(Tail(pl))

\* the entries of a kind, in playlist order
RECURSIVE EntriesOf(_, _)
EntriesOf(pl, kind) ==
    IF Len(pl) = 0 THEN <<>>
    ELSE (IF pl[1].kind = kind THEN <<pl[1]>> ELSE <<>>) \o EntriesOf(Tail(pl), kind)

\* whether an attribute list names an attribute
HasAttr(attrs, name) == \E i \in 1..Len(attrs) : attrs[i].name = name

\* the value of the last attribute of that name
AttrValue(attrs, name) ==
    LET i == CHOOSE j \in 1..Len(attrs) :
                 /\ attrs[j].name = name
                 /\ \A m \in (j + 1)..Len(attrs) : attrs[m].name # name
    IN  attrs[i].value

(***************************************************************************)
(* M3U8Downloader.parse and M3U8Downloader._parse_key: the pure parts      *)
(***************************************************************************)

\* base_url = self.m3u8_url.rsplit("/", 1)[0] + "/"
BaseUrl(url) == RSplitHead(url) \o "/"

\* line if line.startswith("http") else base_url + line
SegmentUrl(base, line) == IF StartsWith(line, "http") THEN line ELSE base \o line

\* which branch of the loop of parse() a stripped line takes
IsKeyLine(line) == StartsWith(line, "#EXT-X-KEY")
IsSegmentLine(line) == ~IsKeyLine(line) /\ line # "" /\ ~StartsWith(line, "#")

\* the loop of _parse_key over line.split(","): uri_part and iv_part
RECURSIVE ScanAttrs(_, _)
ScanAttrs(segs, acc) ==
    IF Len(segs) = 0 THEN acc
    ELSE CHOOSE r \in
             {ScanAttrs(Tail(segs),
                        IF StartsWith(seg, "URI=")
                            THEN [acc EXCEPT !.uri = StripQuotes(SubSeq(seg, 5, Len(seg)))]
                        ELSE IF StartsWith(seg, "IV=")
                            THEN [acc EXCEPT !.iv = StripQuotes(SubSeq(seg, 4, Len(seg)))]
                        ELSE acc) : seg \in {Strip(segs[1])}} : TRUE

KeyParts(line) ==
    CHOOSE r \in {ScanAttrs(segs, [uri |-> "", iv |-> ""]) : segs \in {Split(line, ",")}} : TRUE

\* uri_part.startswith("http"): the key is fetched, not decoded
KeyIsRemote(uri) == StartsWith(uri, "http")

\* iv_part.startswith("0x"): the IV is decoded from iv_part[2:]
IvIsExplicit(ivp) == StartsWith(ivp, "0x")

\* ResolveIv with the all-zero block for the IV a directive does not give
ResolveIv_ZeroIv(ivp, key_bytes) ==
    IF IvIsExplicit(ivp) THEN FromHex(SubSeq(ivp, 3, Len(ivp))) ELSE [i \in 1..BlockSize |-> 0]

\* self.iv = bytes.fromhex(iv_part[2:]) if iv_part.startswith("0x") else key_bytes
ResolveIv(ivp, key_bytes) ==
    IF IvIsExplicit(ivp) THEN FromHex(SubSeq(ivp, 3, Len(ivp))) ELSE key_bytes

\* whether that assignment raises ValueError
IvRaises(ivp) == IvIsExplicit(ivp) /\ ~HexValid(SubSeq(ivp, 3, Len(ivp)))

(***************************************************************************)
(* Bounds of the model and the inputs the environment draws from           *)
(***************************************************************************)

\* the most segment lines a playlist of the model has
MaxSegs == 2

\* the most invocations of the program over one filesystem
MaxRuns == 2

\* retry = 3
RetryBudget == 3

M3u8Url == "http://h/a/b/index.m3u8"
M3u8Urls == {M3u8Url, "https://c/i.m3u8?t=/x"}
Outputs == {"out.mp4"}

KeyHexText == "101112131415161718191a1b1c1d1e1f"
IvHexText == "000102030405060708090a0b0c0d0e0f"
KeyUrl == "http://h/k.bin"
KeyBytes == FromHex(KeyHexText)
IvBytes == FromHex(IvHexText)

\* the -k option: absent, or a key in hexadecimal
CliKeys == {None, Some(KeyHexText)}

Method == Attr("METHOD", "AES-128", FALSE)
KeyInline == KeyLine(<<Method, Attr("URI", KeyHexText, TRUE)>>)
KeyInlineIv ==
    KeyLine(<<Method, Attr("URI", KeyHexText, TRUE), Attr("IV", "0x" \o IvHexText, FALSE)>>)
KeyRemote == KeyLine(<<Method, Attr("URI", KeyUrl, TRUE)>>)
KeyRemoteIv ==
    KeyLine(<<Method, Attr("URI", KeyUrl, TRUE), Attr("IV", "0x" \o IvHexText, FALSE)>>)
KeyBadHex == KeyLine(<<Method, Attr("URI", "zz", TRUE)>>)
KeyUriFirstBad == KeyLine(<<Attr("URI", "zz", TRUE), Method>>)
KeyUriFirst == KeyLine(<<Attr("URI", KeyHexText, TRUE), Method>>)
KeyIvFirst ==
    KeyLine(<<Attr("IV", "0x" \o IvHexText, FALSE), Attr("URI", KeyHexText, TRUE), Method>>)

\* the key directives of a playlist: none, or one before the segment lines
KeyPrefixes ==
    {<<>>, <<KeyInline>>, <<KeyInlineIv>>, <<KeyRemote>>, <<KeyBadHex>>, <<KeyUriFirstBad>>}

\* the same and more, for the parser alone: two directives, the second replacing
\* the first
ParseKeyPrefixes ==
    KeyPrefixes \cup {<<KeyRemoteIv>>, <<KeyInlineIv, KeyRemote>>, <<KeyRemote, KeyRemoteIv>>,
                      <<KeyUriFirst>>, <<KeyIvFirst>>}

\* a playlist document: header, key directives, segment lines, a blank line, end tag
Playlist(keys, segs) ==
    <<TagLine("#EXTM3U")>> \o keys \o segs \o <<TagLine(""), TagLine("#EXT-X-ENDLIST")>>

SegName(i) == "seg" \o Dec(i) \o ".ts"

\* the playlists of the pipeline's runs: relative segment lines seg1.ts, seg2.ts, ...
Docs ==
    {Playlist(keys, [i \in 1..n |-> SegLine(SegName(i))]) :
        keys \in KeyPrefixes, n \in 0..MaxSegs}

\* segment lines as playlists write them: relative to the playlist, absolute,
\* and a relative name that begins with the letters http
SegTexts == {"seg1.ts", "http://c/d/s.ts", "https://c/d/s.ts", "http_1.ts"}

\* the playlists of the parser alone: any segment lines
ParseDocs ==
    {Playlist(keys, [i \in 1..n |-> SegLine(t[i])]) :
        keys \in ParseKeyPrefixes, n \in 0..MaxSegs, t \in [1..MaxSegs -> SegTexts]}

\* what a GET of the key resource gives: a transport error, or a response whose
\* status the code does not look at
KeyResponses ==
    {[ok |-> FALSE, status |-> 0, body |-> <<>>],
     [ok |-> TRUE, status |-> 200, body |-> KeyBytes],
     [ok |-> TRUE, status |-> 404, body |-> <<>>]}

\* what a successful GET of a segment gives: one block encrypted under the key
\* with the key as IV, or one block encrypted under the key with the explicit IV
Payloads ==
    {CbcEncrypt(KeyBytes, KeyBytes, Pad(<<7>>)), CbcEncrypt(KeyBytes, IvBytes, Pad(<<8, 9>>))}

(***************************************************************************)
(* State                                                                   *)
(***************************************************************************)

VARIABLES
    pc,         \* the orchestrator's state
    runs,       \* invocations of the program so far
    m3u8_url,   \* self.m3u8_url
    output,     \* self.output
    cli_key,    \* args.key
    playlist,   \* the playlist the server holds during this invocation
    lines,      \* resp.text.splitlines() in parse()
    lineNo,     \* the line the loop of parse() is at
    key,        \* self.key
    iv,         \* self.iv
    ts_urls,    \* self.ts_urls
    idx,        \* idx of the loop of download()
    retry,      \* retry of the loop of download()
    fetched,    \* resp.content of the segments fetched so far, in order
    files,      \* filesystem: the content of each output path, if it exists
    dirs,       \* filesystem: the entries of each staging directory, if it exists
    exit_code,  \* the process's exit status, -1 while it runs
    out,        \* what the last step did that can be observed, in order
    start       \* the filesystem as this invocation found it

vars ==
    <<pc, runs, m3u8_url, output, cli_key, playlist, lines, lineNo, key, iv, ts_urls,
      idx, retry, fetched, files, dirs, exit_code, out, start>>

TempDirs == {TempDir(o) : o \in Outputs}

EmptyDir == [n \in {} |-> <<>>]

\* an observable event: a GET, a log line of a level (idx and n: the numbers in
\* its message), a sleep (n: the seconds), an uncaught exception's traceback,
\* the process's exit (n: the status)
Ev(ev, tag, what, i, n) ==
    [ev |-> ev, tag |-> tag, what |-> what, idx |-> i, n |-> n, k |-> 0]

\* a GET of a kind of resource, the k-th for it: n is 1 when it succeeds and 0
\* when it fails
GetEv(kind, url, i, k, ok) ==
    [ev |-> "get", tag |-> kind, what |-> url, idx |-> i, n |-> IF ok THEN 1 ELSE 0, k |-> k]
Info(what, i, n) == Ev("log", "INFO", what, i, n)
Succ(what, i, n) == Ev("log", "SUCC", what, i, n)
Warn(what, i, n) == Ev("log", "WARN", what, i, n)
Error(what) == Ev("log", "ERROR", what, 0, 0)
Sleep(i, secs) == Ev("sleep", "", "", i, secs)
Traceback(exc) == Ev("traceback", exc, "", 0, 0)
Exit(code) == Ev("exit", "", "", 0, code)

\* M3U8Downloader.__init__: the key argument is not stored
NewObject(u, o, k) ==
    [m3u8_url |-> u, output |-> o, key |-> None, iv |-> None, ts_urls |-> <<>>]

InitWith(D, U) ==
    \E pl \in D, u \in U, o \in Outputs, k \in CliKeys :
        LET obj == NewObject(u, o, k)
        IN  /\ pc = "Created"
            /\ runs = 1
            /\ m3u8_url = obj.m3u8_url
            /\ output = obj.output
            /\ cli_key = k
            /\ playlist = pl
            /\ lines = <<>>
            /\ lineNo = 0
            /\ key = obj.key
            /\ iv = obj.iv
            /\ ts_urls = obj.ts_urls
            /\ idx = 0
            /\ retry = 0
            /\ fetched = <<>>
            /\ files = [p \in Outputs |-> None]
            /\ dirs = [d \in TempDirs |-> None]
            /\ exit_code = -1
            /\ out = <<>>
            /\ start = [files |-> [p \in Outputs |-> None], dirs |-> [d \in TempDirs |-> None]]

Init == InitWith(Docs, {M3u8Url})

(***************************************************************************)
(* The process comes to an end                                             *)
(***************************************************************************)

\* sys.exit(1) after ColoredLog.error, or an exception nothing catches: the
\* events are observed and the process is gone with status 1
Abort(events) ==
    /\ out' = events \o <<Exit(1)>>
    /\ exit_code' = 1
    /\ pc' = "Failed"

(***************************************************************************)
(* run(): self.parse()                                                     *)
(***************************************************************************)

\* Parse_Get with the except clause passing: a playlist that cannot be fetched
\* is read as an empty one
Parse_Get_Lenient ==
    /\ pc = "Created"
    /\ \/ /\ out' = <<Info("parse_start", 0, 0), GetEv("playlist", m3u8_url, 0, 1, FALSE)>>
          /\ lines' = <<>>
       \/ /\ out' = <<Info("parse_start", 0, 0), GetEv("playlist", m3u8_url, 0, 1, TRUE)>>
          /\ lines' = SplitLines(RenderDoc(playlist))
    /\ lineNo' = 1
    /\ pc' = "Parsing"
    /\ UNCHANGED <<exit_code, runs, m3u8_url, output, cli_key, playlist, key, iv, ts_urls, idx,
                   retry, fetched, files, dirs, start>>

\* parse(), to the end of the GET of the playlist: any failure (a transport
\* error, a status raise_for_status() refuses) is logged and ends the process
Parse_Get ==
    /\ pc = "Created"
    /\ \/ /\ Abort(<<Info("parse_start", 0, 0), GetEv("playlist", m3u8_url, 0, 1, FALSE),
                     Error("m3u8_failed")>>)
          /\ UNCHANGED <<lines, lineNo>>
       \/ /\ out' = <<Info("parse_start", 0, 0), GetEv("playlist", m3u8_url, 0, 1, TRUE)>>
          /\ lines' = SplitLines(RenderDoc(playlist))
          /\ lineNo' = 1
          /\ pc' = "Parsing"
          /\ UNCHANGED exit_code
    /\ UNCHANGED <<runs, m3u8_url, output, cli_key, playlist, key, iv, ts_urls, idx, retry,
                   fetched, files, dirs, start>>

\* the line the loop of parse() is at, stripped
CurLine == Strip(lines[lineNo])

InParseLoop == pc = "Parsing" /\ lineNo <= Len(lines)

\* a line that is neither a key directive nor a segment line
Parse_Skip ==
    /\ InParseLoop
    /\ ~IsKeyLine(CurLine)
    /\ ~IsSegmentLine(CurLine)
    /\ lineNo' = lineNo + 1
    /\ out' = <<>>
    /\ UNCHANGED <<pc, runs, m3u8_url, output, cli_key, playlist, lines, key, iv, ts_urls,
                   idx, retry, fetched, files, dirs, exit_code, start>>

\* a segment line
Parse_Segment ==
    /\ InParseLoop
    /\ IsSegmentLine(CurLine)
    /\ ts_urls' = Append(ts_urls, SegmentUrl(BaseUrl(m3u8_url), CurLine))
    /\ lineNo' = lineNo + 1
    /\ out' = <<>>
    /\ UNCHANGED <<pc, runs, m3u8_url, output, cli_key, playlist, lines, key, iv,
                   idx, retry, fetched, files, dirs, exit_code, start>>

\* _parse_key from "self.key = key_bytes" on, after the events so far
KeyAssign(key_bytes, ivp, events) ==
    IF IvRaises(ivp)
    THEN /\ Abort(events \o <<Traceback("ValueError")>>)
         /\ key' = Some(key_bytes)
         /\ UNCHANGED <<iv, lineNo>>
    ELSE /\ key' = Some(key_bytes)
         /\ iv' = Some(ResolveIv(ivp, key_bytes))
         /\ out' = events \o <<Info("key_info", 0, 0)>>
         /\ lineNo' = lineNo + 1
         /\ UNCHANGED <<pc, exit_code>>

\* a key directive whose URI is fetched: requests.get(uri_part).content
Parse_KeyRemote ==
    /\ InParseLoop
    /\ IsKeyLine(CurLine)
    /\ KeyIsRemote(KeyParts(CurLine).uri)
    /\ LET parts == KeyParts(CurLine)
       IN  \E r \in KeyResponses :
               IF r.ok
               THEN KeyAssign(r.body, parts.iv, <<GetEv("key", parts.uri, 0, 1, TRUE)>>)
               ELSE /\ Abort(<<GetEv("key", parts.uri, 0, 1, FALSE), Error("key_fetch_failed")>>)
                    /\ UNCHANGED <<key, iv, lineNo>>
    /\ UNCHANGED <<runs, m3u8_url, output, cli_key, playlist, lines, ts_urls, idx, retry,
                   fetched, files, dirs, start>>

\* a key directive whose URI is taken as hexadecimal: bytes.fromhex(uri_part)
Parse_KeyInline ==
    /\ InParseLoop
    /\ IsKeyLine(CurLine)
    /\ ~KeyIsRemote(KeyParts(CurLine).uri)
    /\ LET parts == KeyParts(CurLine)
       IN  IF HexValid(parts.uri)
           THEN KeyAssign(FromHex(parts.uri), parts.iv, <<>>)
           ELSE /\ Abort(<<Error("key_format")>>)
                /\ UNCHANGED <<key, iv, lineNo>>
    /\ UNCHANGED <<runs, m3u8_url, output, cli_key, playlist, lines, ts_urls, idx, retry,
                   fetched, files, dirs, start>>

(***************************************************************************)
(* run(): self.download()                                                  *)
(***************************************************************************)

\* Download_Begin with the output opened "wb" as the download begins
Download_Begin_Truncates ==
    /\ pc = "Parsing"
    /\ lineNo > Len(lines)
    /\ out' = <<Info("count", 0, Len(ts_urls)), Info("download_start", 0, 0)>>
    /\ dirs' = [dirs EXCEPT ![TempDir(output)] = IF IsSome(@) THEN @ ELSE Some(EmptyDir)]
    /\ files' = [files EXCEPT ![output] = Some(<<>>)]
    /\ idx' = 1
    /\ retry' = RetryBudget
    /\ pc' = "Downloading"
    /\ UNCHANGED <<runs, m3u8_url, output, cli_key, playlist, lines, lineNo, key, iv, ts_urls,
                   fetched, exit_code, start>>

\* parse() returns and download() runs to its loop: temp_dir.mkdir(exist_ok=True)
Download_Begin ==
    /\ pc = "Parsing"
    /\ lineNo > Len(lines)
    /\ out' = <<Info("count", 0, Len(ts_urls)), Info("download_start", 0, 0)>>
    /\ dirs' = [dirs EXCEPT ![TempDir(output)] = IF IsSome(@) THEN @ ELSE Some(EmptyDir)]
    /\ idx' = 1
    /\ retry' = RetryBudget
    /\ pc' = "Downloading"
    /\ UNCHANGED <<runs, m3u8_url, output, cli_key, playlist, lines, lineNo, key, iv, ts_urls,
                   fetched, files, exit_code, start>>

InSegmentLoop == pc = "Downloading" /\ idx <= Len(ts_urls) /\ retry > 0

\* which GET of the segment the next one is: retry starts at 3 and counts down
AttemptNo == RetryBudget - retry + 1

\* Attempt_Fail with the sys.exit(1) of the else clause left out: the error is
\* logged and the loop goes on to the next segment
Attempt_Fail_NoExit ==
    /\ InSegmentLoop
    /\ retry' = retry - 1
    /\ LET events == <<GetEv("segment", ts_urls[idx], idx, AttemptNo, FALSE),
                       Warn("retry_warn", idx, retry - 1), Sleep(idx, 1)>>
       IN  IF retry - 1 = 0
           THEN /\ out' = events \o <<Error("retry_exhausted")>>
                /\ idx' = idx + 1
           ELSE /\ out' = events
                /\ idx' = idx
    /\ UNCHANGED <<pc, exit_code, runs, m3u8_url, output, cli_key, playlist, lines, lineNo,
                   key, iv, ts_urls, fetched, files, dirs, start>>

\* an attempt that fails (a transport error, a status raise_for_status()
\* refuses): retry -= 1, the warning, the sleep; with no retry left the loop
\* ends in its else clause
\* Attempt_Fail without "retry -= 1": the loop of a segment has no end
Attempt_Fail_NoCountdown ==
    /\ InSegmentLoop
    /\ out' = <<GetEv("segment", ts_urls[idx], idx, AttemptNo, FALSE),
                Warn("retry_warn", idx, retry), Sleep(idx, 1)>>
    /\ UNCHANGED <<pc, runs, m3u8_url, output, cli_key, playlist, lines, lineNo, key, iv,
                   ts_urls, idx, retry, fetched, files, dirs, exit_code, start>>

Attempt_Fail ==
    /\ InSegmentLoop
    /\ retry' = retry - 1
    /\ LET events == <<GetEv("segment", ts_urls[idx], idx, AttemptNo, FALSE),
                       Warn("retry_warn", idx, retry - 1), Sleep(idx, 1)>>
       IN  IF retry - 1 = 0
           THEN Abort(events \o <<Error("retry_exhausted")>>)
           ELSE /\ out' = events
                /\ UNCHANGED <<pc, exit_code>>
    /\ UNCHANGED <<runs, m3u8_url, output, cli_key, playlist, lines, lineNo, key, iv, ts_urls,
                   idx, fetched, files, dirs, start>>

\* temp_file.write_bytes(data)
\* WriteStage with the write lost
WriteStage_Lost(d, name, data) == d

\* WriteStage into a directory emptied first
WriteStage_Alone(d, name, data) == [d EXCEPT ![TempDir(output)] = Some(name :> data)]

WriteStage(d, name, data) ==
    [d EXCEPT ![TempDir(output)] = Some((name :> data) @@ Get(@))]

\* Attempt_Ok with "retry = 3" hoisted out of the for loop: the budget is not
\* renewed for the next segment
Attempt_Ok_SharedBudget ==
    /\ InSegmentLoop
    /\ \E body \in Payloads :
          /\ fetched' = Append(fetched, body)
          /\ IF Truthy(key) /\ ~DecryptOk(Get(key), Get(iv), body)
             THEN /\ Abort(<<GetEv("segment", ts_urls[idx], idx, AttemptNo, TRUE),
                             Traceback("ValueError")>>)
                  /\ UNCHANGED <<idx, dirs>>
             ELSE /\ dirs' = WriteStage(dirs, StageName(idx),
                                 IF Truthy(key) THEN Decrypt(Get(key), Get(iv), body) ELSE body)
                  /\ out' = <<GetEv("segment", ts_urls[idx], idx, AttemptNo, TRUE),
                              Succ("seg_done", idx, Len(ts_urls))>>
                  /\ idx' = idx + 1
                  /\ UNCHANGED <<pc, exit_code>>
    /\ UNCHANGED <<runs, m3u8_url, output, cli_key, playlist, lines, lineNo, key, iv, ts_urls,
                   retry, files, start>>

\* Attempt_Ok with the staging file numbered by the GETs made, not by the segment
Attempt_Ok_CountsAttempts ==
    /\ InSegmentLoop
    /\ \E body \in Payloads :
          /\ fetched' = Append(fetched, body)
          /\ IF Truthy(key) /\ ~DecryptOk(Get(key), Get(iv), body)
             THEN /\ Abort(<<GetEv("segment", ts_urls[idx], idx, AttemptNo, TRUE),
                             Traceback("ValueError")>>)
                  /\ UNCHANGED <<idx, retry, dirs>>
             ELSE /\ dirs' = WriteStage(dirs, StageName(idx + AttemptNo - 1),
                                 IF Truthy(key) THEN Decrypt(Get(key), Get(iv), body) ELSE body)
                  /\ out' = <<GetEv("segment", ts_urls[idx], idx, AttemptNo, TRUE),
                              Succ("seg_done", idx, Len(ts_urls))>>
                  /\ idx' = idx + 1
                  /\ retry' = RetryBudget
                  /\ UNCHANGED <<pc, exit_code>>
    /\ UNCHANGED <<runs, m3u8_url, output, cli_key, playlist, lines, lineNo, key, iv, ts_urls,
                   files, start>>

\* an attempt that succeeds: the loop breaks, the content is decrypted if
\* self.key is true, written to its staging file and reported
Attempt_Ok ==
    /\ InSegmentLoop
    /\ \E body \in Payloads :
          /\ fetched' = Append(fetched, body)
          /\ IF Truthy(key) /\ ~DecryptOk(Get(key), Get(iv), body)
             THEN /\ Abort(<<GetEv("segment", ts_urls[idx], idx, AttemptNo, TRUE), Traceback("ValueError")>>)
                  /\ UNCHANGED <<idx, retry, dirs>>
             ELSE /\ dirs' = WriteStage(dirs, StageName(idx),
                                 IF Truthy(key) THEN Decrypt(Get(key), Get(iv), body) ELSE body)
                  /\ out' = <<GetEv("segment", ts_urls[idx], idx, AttemptNo, TRUE),
                                         Succ("seg_done", idx, Len(ts_urls))>>
                  /\ idx' = idx + 1
                  /\ retry' = RetryBudget
                  /\ UNCHANGED <<pc, exit_code>>
    /\ UNCHANGED <<runs, m3u8_url, output, cli_key, playlist, lines, lineNo, key, iv, ts_urls,
                   files, start>>

(***************************************************************************)
(* run(): self.merge(), self.clean(), the last line                        *)
(***************************************************************************)

\* temp_dir.glob("*.ts")
GlobTs(entries) == {n \in DOMAIN entries : EndsWith(n, ".ts")}

RECURSIVE Concat(_, _)
Concat(entries, names) ==
    IF Len(names) = 0 THEN <<>>
    ELSE entries[names[1]] \o Concat(entries, Tail(names))

\* what merge() writes: the staging files' contents in sorted() order
Merged(entries) == Concat(entries, SortedNames(GlobTs(entries)))

\* Merge entered while segments are still to be fetched
Merge_Early ==
    /\ pc = "Downloading"
    /\ idx >= 1
    /\ files' = [files EXCEPT ![output] = Some(Merged(Get(dirs[TempDir(output)])))]
    /\ out' = <<Info("merge_start", 0, 0), Succ("merge_done", 0, 0)>>
    /\ pc' = "Merging"
    /\ UNCHANGED <<runs, m3u8_url, output, cli_key, playlist, lines, lineNo, key, iv, ts_urls,
                   idx, retry, fetched, dirs, exit_code, start>>

\* download() returns and merge() runs: the output is opened "wb" and written
Merge ==
    /\ pc = "Downloading"
    /\ idx > Len(ts_urls)
    /\ files' = [files EXCEPT ![output] = Some(Merged(Get(dirs[TempDir(output)])))]
    /\ out' = <<Info("merge_start", 0, 0), Succ("merge_done", 0, 0)>>
    /\ pc' = "Merging"
    /\ UNCHANGED <<runs, m3u8_url, output, cli_key, playlist, lines, lineNo, key, iv, ts_urls,
                   idx, retry, fetched, dirs, exit_code, start>>

\* Clean without the rmdir(): the emptied directory stays
Clean_NoRmdir ==
    /\ pc = "Merging"
    /\ LET entries == Get(dirs[TempDir(output)])
           left == DOMAIN entries \ GlobTs(entries)
       IN  dirs' = [dirs EXCEPT ![TempDir(output)] = Some([n \in left |-> entries[n]])]
    /\ pc' = "Cleaning"
    /\ out' = <<>>
    /\ UNCHANGED <<runs, m3u8_url, output, cli_key, playlist, lines, lineNo, key, iv, ts_urls,
                   idx, retry, fetched, files, exit_code, start>>

\* clean(): every *.ts of the staging directory is unlinked, then rmdir(),
\* which raises OSError when anything is left in the directory
Clean ==
    /\ pc = "Merging"
    /\ LET entries == Get(dirs[TempDir(output)])
           left == DOMAIN entries \ GlobTs(entries)
       IN  IF left = {}
           THEN /\ dirs' = [dirs EXCEPT ![TempDir(output)] = None]
                /\ pc' = "Cleaning"
                /\ out' = <<>>
                /\ UNCHANGED exit_code
           ELSE /\ dirs' = [dirs EXCEPT ![TempDir(output)] = Some([n \in left |-> entries[n]])]
                /\ Abort(<<Traceback("OSError")>>)
    /\ UNCHANGED <<runs, m3u8_url, output, cli_key, playlist, lines, lineNo, key, iv, ts_urls,
                   idx, retry, fetched, files, start>>

\* run() logs its last line and main() returns: exit status 0
\* Finish with run() starting over instead of returning
Finish_Rerun ==
    /\ pc = "Cleaning"
    /\ out' = <<Succ("all_done", 0, 0)>>
    /\ pc' = "Created"
    /\ UNCHANGED <<runs, m3u8_url, output, cli_key, playlist, lines, lineNo, key, iv, ts_urls,
                   idx, retry, fetched, files, dirs, exit_code, start>>

Finish ==
    /\ pc = "Cleaning"
    /\ out' = <<Succ("all_done", 0, 0), Exit(0)>>
    /\ exit_code' = 0
    /\ pc' = "Done"
    /\ UNCHANGED <<runs, m3u8_url, output, cli_key, playlist, lines, lineNo, key, iv, ts_urls,
                   idx, retry, fetched, files, dirs, start>>

(***************************************************************************)
(* main(): the program is invoked again, on the filesystem as it is        *)
(***************************************************************************)

Main ==
    /\ pc \in {"Done", "Failed"}
    /\ runs < MaxRuns
    /\ \E pl \in Docs, o \in Outputs, k \in CliKeys :
          LET obj == NewObject(M3u8Url, o, k)
          IN  /\ m3u8_url' = obj.m3u8_url
              /\ output' = obj.output
              /\ cli_key' = k
              /\ playlist' = pl
              /\ key' = obj.key
              /\ iv' = obj.iv
              /\ ts_urls' = obj.ts_urls
    /\ pc' = "Created"
    /\ runs' = runs + 1
    /\ lines' = <<>>
    /\ lineNo' = 0
    /\ idx' = 0
    /\ retry' = 0
    /\ fetched' = <<>>
    /\ exit_code' = -1
    /\ out' = <<>>
    /\ start' = [files |-> files, dirs |-> dirs]
    /\ UNCHANGED <<files, dirs>>

Next ==
    \/ Parse_Get
    \/ Parse_Skip
    \/ Parse_Segment
    \/ Parse_KeyRemote
    \/ Parse_KeyInline
    \/ Download_Begin
    \/ Attempt_Fail
    \/ Attempt_Ok
    \/ Merge
    \/ Clean
    \/ Finish
    \/ Main

Spec == Init /\ [][Next]_vars

\* The parser alone, on every playlist of ParseDocs: one invocation, to the
\* point where download() has begun.
InitParse == InitWith(ParseDocs, M3u8Urls)

NextParse ==
    \/ Parse_Get
    \/ Parse_Skip
    \/ Parse_Segment
    \/ Parse_KeyRemote
    \/ Parse_KeyInline
    \/ Download_Begin

SpecParse == InitParse /\ [][NextParse]_vars

(***************************************************************************)
(* What the claims speak of                                                *)
(***************************************************************************)

\* a step of the running process (Next without a new invocation)
ProcessStep ==
    \/ Parse_Get
    \/ Parse_Skip
    \/ Parse_Segment
    \/ Parse_KeyRemote
    \/ Parse_KeyInline
    \/ Download_Begin
    \/ Attempt_Fail
    \/ Attempt_Ok
    \/ Merge
    \/ Clean
    \/ Finish

\* the process has come to its end: it takes no further step
RunOver == ~ENABLED ProcessStep

\* the events of the last step
Events == {out[i] : i \in 1..Len(out)}

\* the GETs of segments among them
SegmentGets == {e \in Events : e.ev = "get" /\ e.tag = "segment"}

\* the staging directory of this invocation and what it held at the start
Td == TempDir(output)
Staging == Get(dirs[Td])
StagingAtStart == IF IsSome(start.dirs[Td]) THEN Get(start.dirs[Td]) ELSE EmptyDir

RECURSIVE Flatten(_)
Flatten(chunks) == IF Len(chunks) = 0 THEN <<>> ELSE Head(chunks) \o Flatten(Tail(chunks))

\* the third GET of a segment has just failed
FetchExhausted == \E e \in SegmentGets : e.n = 0 /\ e.k = 3

\* the staging file of segment j is as this invocation found it: not there, or
\* with the bytes it had
NotStaged(j) ==
    IF StageName(j) \in DOMAIN StagingAtStart
    THEN StageName(j) \in DOMAIN Staging /\ Staging[StageName(j)] = StagingAtStart[StageName(j)]
    ELSE StageName(j) \notin DOMAIN Staging

(***************************************************************************)
(* C1: with N segment lines and no key directive, the output of a          *)
(* successful run is the concatenation, in playlist order, of the N        *)
(* payloads fetched (and so as long as their lengths together).            *)
(***************************************************************************)
C1_OutputIsConcatenation ==
    (pc = "Done" /\ EntriesOf(playlist, "key") = <<>>) =>
        /\ Len(fetched) = Len(EntriesOf(playlist, "seg"))
        /\ files[output] = Some(Flatten(fetched))
        /\ Len(Get(files[output])) = Len(Flatten(fetched))

\* the same of the runs that found no staging directory: these it holds of
C1_FromNoStagingDirectory ==
    (pc = "Done" /\ EntriesOf(playlist, "key") = <<>> /\ start.dirs[Td] = None) =>
        /\ Len(fetched) = Len(EntriesOf(playlist, "seg"))
        /\ files[output] = Some(Flatten(fetched))

(***************************************************************************)
(* C2: when the third GET of a segment fails the run ends there with a     *)
(* fatal error: the process is gone with status 1, the output path is as   *)
(* it was (no output file is created), no later segment has been or will   *)
(* be fetched, and merge is never entered.                                 *)
(***************************************************************************)
C2_RetryExhaustionAborts ==
    FetchExhausted =>
        /\ pc = "Failed"
        /\ exit_code = 1
        /\ Error("retry_exhausted") \in Events
        /\ files = start.files
        /\ idx <= Len(ts_urls)
        /\ Len(fetched) = idx - 1
        /\ RunOver

C2_Witness ==
    /\ FetchExhausted
    /\ idx = 1
    /\ Len(ts_urls) = 2
    /\ files[output] = None

(***************************************************************************)
(* C3: a segment gets at least 1 and at most 3 GETs.  Each GET is the      *)
(* first, second or third of its segment; every segment starts with the    *)
(* whole budget, whatever failed before; after a failed first or second    *)
(* GET another GET of the same segment is due; after a failed third the    *)
(* run is over; a successful GET ends the loop (the run moves to the next  *)
(* segment or ends), and a segment is staged only in the step of its       *)
(* successful GET.                                                         *)
(***************************************************************************)
C3_AttemptsPerSegment ==
    /\ Cardinality(SegmentGets) <= 1
    /\ \A e \in SegmentGets :
          /\ e.k \in 1..3
          /\ (e.n = 0 /\ e.k < 3) =>
                 /\ pc = "Downloading"
                 /\ idx = e.idx
                 /\ retry = 3 - e.k
                 /\ InSegmentLoop
                 /\ ENABLED Attempt_Fail
          /\ (e.n = 0 /\ e.k = 3) => (pc = "Failed" /\ RunOver)
          /\ e.n = 1 => (pc = "Failed" \/ (pc = "Downloading" /\ idx = e.idx + 1))
    /\ (pc = "Downloading" /\ idx <= Len(ts_urls) /\ \A e \in SegmentGets : e.n = 1) => retry = 3
    /\ \A e \in Events :
          (e.ev = "log" /\ e.what = "seg_done") =>
              \E g \in SegmentGets : g.n = 1 /\ g.idx = e.idx

\* the second segment's third GET succeeds and the loop has moved on
C3_Witness ==
    \E e \in SegmentGets : e.n = 1 /\ e.k = 3 /\ e.idx = 2 /\ idx = 3

(***************************************************************************)
(* C4: with a key active, when what was fetched for segment i does not     *)
(* decrypt to valid padding the run halts at segment i: the process is     *)
(* gone with status 1, segment i is not staged, no segment after i is      *)
(* fetched or staged, and merge and cleanup are never entered (the output  *)
(* path is as it was and the staging directory still exists).              *)
(***************************************************************************)
PaddingBad(body) ==
    /\ Truthy(key)
    /\ IsSome(iv)
    /\ CipherAccepts(Get(key), Get(iv))
    /\ Len(body) > 0
    /\ Len(body) % BlockSize = 0
    /\ ~PadOk(CbcDecrypt(Get(key), Get(iv), body))

C4_PaddingErrorHalts ==
    \A j \in 1..Len(fetched) :
        PaddingBad(fetched[j]) =>
            /\ j = Len(fetched)
            /\ idx = j
            /\ pc = "Failed"
            /\ exit_code = 1
            /\ \A m \in j..Len(ts_urls) : NotStaged(m)
            /\ files = start.files
            /\ IsSome(dirs[Td])
            /\ RunOver

\* the second segment's padding is bad, after the first was staged
C4_Witness ==
    /\ Len(fetched) = 2
    /\ PaddingBad(fetched[2])
    /\ ~PaddingBad(fetched[1])
    /\ StageName(1) \in DOMAIN Staging

(***************************************************************************)
(* C5: once a run is Done its staging directory, with every staging file   *)
(* in it, is gone and the output file exists at the output path given.     *)
(***************************************************************************)
C5_DoneLeavesOutputOnly ==
    pc = "Done" =>
        /\ dirs[TempDir(output)] = None
        /\ IsSome(files[output])
        /\ exit_code = 0

C5_Witness ==
    /\ pc = "Done"
    /\ Len(ts_urls) = 2
    /\ Len(Get(files[output])) > 0

(***************************************************************************)
(* C6: after a fatal failure while processing segment i the staging        *)
(* directory still exists and holds exactly the staging files of segments  *)
(* 1..i-1 as this run wrote them; nothing is rolled back.                  *)
(***************************************************************************)

\* the run has failed in the download loop, at segment idx
FailedAtSegment == pc = "Failed" /\ \E e \in SegmentGets : e.idx = idx

\* what this run stages of a payload fetched
StagedBytes(body) == IF Truthy(key) THEN Unpad(CbcDecrypt(Get(key), Get(iv), body)) ELSE body

OwnStageNames == {StageName(j) : j \in 1..(idx - 1)}

C6_StagingAfterFailure ==
    FailedAtSegment =>
        /\ IsSome(dirs[Td])
        /\ DOMAIN Staging = OwnStageNames
        /\ \A j \in 1..(idx - 1) : Staging[StageName(j)] = StagedBytes(fetched[j])

\* what does hold: the directory is what the run found with its own files of
\* segments 1..i-1 laid over it
C6_OverWhatWasFound ==
    FailedAtSegment =>
        /\ IsSome(dirs[Td])
        /\ DOMAIN Staging = OwnStageNames \cup DOMAIN StagingAtStart
        /\ \A j \in 1..(idx - 1) : Staging[StageName(j)] = StagedBytes(fetched[j])
        /\ \A n \in DOMAIN StagingAtStart \ OwnStageNames : Staging[n] = StagingAtStart[n]

(***************************************************************************)
(* C7: when the key directive in force has no IV attribute the resolved IV *)
(* is byte for byte the resolved key, whether the key was given inline in  *)
(* hex or fetched.                                                         *)
(***************************************************************************)

\* the key directives parse() has been through (line j of the text is entry j
\* of the playlist served)
KeysSeen == {j \in 1..Len(playlist) : j < lineNo /\ playlist[j].kind = "key"}

C7_IvDefaultsToKey ==
    (KeysSeen # {} /\ ~HasAttr(playlist[Max(KeysSeen)].attrs, "IV")) =>
        /\ IsSome(key)
        /\ IsSome(iv)
        /\ Get(iv) = Get(key)

\* a directive with an IV, then a remote one without: the key fetched is the IV
C7_Witness ==
    /\ Cardinality(KeysSeen) = 2
    /\ ~HasAttr(playlist[Max(KeysSeen)].attrs, "IV")
    /\ HasAttr(playlist[Min(KeysSeen)].attrs, "IV")
    /\ key = Some(KeyBytes)
    /\ iv = Some(KeyBytes)

\* an inline key without an IV
C7_WitnessInline ==
    /\ Cardinality(KeysSeen) = 1
    /\ playlist[Max(KeysSeen)] = KeyInline
    /\ iv = Some(KeyBytes)

(***************************************************************************)
(* C8: a segment line that begins with http:// or https:// is the segment  *)
(* URL as it stands; any other line is appended to the base URL, the       *)
(* playlist URL up to and including its last '/'.                          *)
(***************************************************************************)
IsAbsoluteUrl(line) == StartsWith(line, "http://") \/ StartsWith(line, "https://")

LongestPrefixToSlash(url) == SubSeq(url, 1, LastIndexOf(url, "/"))

SegmentsSeen == {j \in 1..Len(playlist) : j < lineNo /\ playlist[j].kind = "seg"}

\* the position in ts_urls of the segment line that is entry j
Rank(j) == Cardinality({m \in SegmentsSeen : m <= j})

C8_SegmentUrlResolution ==
    pc \in {"Parsing", "Downloading"} =>
        /\ Len(ts_urls) = Cardinality(SegmentsSeen)
        /\ \A j \in SegmentsSeen :
              ts_urls[Rank(j)] =
                  IF IsAbsoluteUrl(playlist[j].text)
                  THEN playlist[j].text
                  ELSE LongestPrefixToSlash(m3u8_url) \o playlist[j].text

\* the same of the lines that do not begin with the letters "http" without
\* being absolute: of these it holds
C8_OffTheHttpPrefix ==
    pc \in {"Parsing", "Downloading"} =>
        /\ Len(ts_urls) = Cardinality(SegmentsSeen)
        /\ \A j \in SegmentsSeen :
              (StartsWith(playlist[j].text, "http") => IsAbsoluteUrl(playlist[j].text)) =>
                  ts_urls[Rank(j)] =
                      IF IsAbsoluteUrl(playlist[j].text)
                      THEN playlist[j].text
                      ELSE LongestPrefixToSlash(m3u8_url) \o playlist[j].text

(***************************************************************************)
(* C9: a key given at invocation is the key the segments are decrypted     *)
(* with; the playlist's directive gives the key only when none was given.  *)
(***************************************************************************)
C9_CliKeyIsUsed ==
    /\ (pc = "Downloading" /\ IsSome(cli_key)) => key = Some(FromHex(Get(cli_key)))
    /\ (pc = "Downloading" /\ cli_key = None /\ KeysSeen = {}) => key = None

(***************************************************************************)
(* C10: the exit status is 0 exactly when the run fully succeeded (every   *)
(* segment staged, the output merged, the staging cleaned); an unreachable *)
(* playlist, an unreadable or malformed key, a segment whose three GETs    *)
(* failed and a decryption failure each end the process with a status     *)
(* other than 0.                                                           *)
(***************************************************************************)

\* a key directive whose URI is neither a URL to fetch nor hex digits
Malformed(entry) ==
    /\ entry.kind = "key"
    /\ HasAttr(entry.attrs, "URI")
    /\ ~StartsWith(AttrValue(entry.attrs, "URI"), "http")
    /\ ~HexValid(AttrValue(entry.attrs, "URI"))

GetFailed(kind) == \E e \in Events : e.ev = "get" /\ e.tag = kind /\ e.n = 0

\* _decrypt raised in the step of a segment's successful GET
DecryptFailed ==
    /\ \E e \in Events : e.ev = "traceback" /\ e.tag = "ValueError"
    /\ \E e \in SegmentGets : e.n = 1

Exited == exit_code # -1

C10_ExitStatus ==
    /\ exit_code = 0 <=> pc = "Done"
    /\ pc = "Done" =>
          /\ Len(fetched) = Len(ts_urls)
          /\ IsSome(files[output])
          /\ dirs[Td] = None
    /\ GetFailed("playlist") => (Exited /\ exit_code # 0)
    /\ GetFailed("key") => (Exited /\ exit_code # 0)
    /\ FetchExhausted => (Exited /\ exit_code # 0)
    /\ DecryptFailed => (Exited /\ exit_code # 0)
    /\ (Exited /\ \E j \in 1..Len(playlist) : Malformed(playlist[j])) => exit_code # 0

\* the same of the playlists whose key directives have a well-formed URI
C10_WellFormedKeys ==
    (\A j \in 1..Len(playlist) : ~Malformed(playlist[j])) =>
        /\ exit_code = 0 <=> pc = "Done"
        /\ pc = "Done" =>
              /\ Len(fetched) = Len(ts_urls)
              /\ IsSome(files[output])
              /\ dirs[Td] = None
        /\ GetFailed("playlist") => (Exited /\ exit_code # 0)
        /\ GetFailed("key") => (Exited /\ exit_code # 0)
        /\ FetchExhausted => (Exited /\ exit_code # 0)
        /\ DecryptFailed => (Exited /\ exit_code # 0)

(***************************************************************************)
(* C11: each kind of fatal error (playlist fetch failure, key fetch        *)
(* failure, key format error, segment fetch exhaustion, padding error)     *)
(* puts an error-marked log line on the diagnostic stream before the       *)
(* process exits; a failed attempt that is not the last puts only          *)
(* warning-marked lines, with the count of attempts left.                  *)
(***************************************************************************)

\* where in the events of the last step the lines of a level are, and the exit
LinesAt(level) == {i \in 1..Len(out) : out[i].ev = "log" /\ out[i].tag = level}
ExitsAt == {i \in 1..Len(out) : out[i].ev = "exit"}

\* a GET of a segment has failed and was not the third
TransientFailure == \E e \in SegmentGets : e.n = 0 /\ e.k < 3

C11_ErrorLineBeforeExit ==
    /\ \A i \in ExitsAt :
          out[i].n # 0 => \E j \in LinesAt("ERROR") : j < i
    /\ \A e \in SegmentGets :
          (e.n = 0 /\ e.k < 3) =>
              /\ LinesAt("ERROR") = {}
              /\ \E j \in LinesAt("WARN") : out[j].idx = e.idx /\ out[j].n = 3 - e.k

\* the same of the exits that no uncaught exception causes: of these it holds
C11_ErrorsTheCodeCatches ==
    /\ \A i \in ExitsAt :
          (out[i].n # 0 /\ \A e \in Events : e.ev # "traceback") =>
              \E j \in LinesAt("ERROR") : j < i
    /\ \A e \in SegmentGets :
          (e.n = 0 /\ e.k < 3) =>
              /\ LinesAt("ERROR") = {}
              /\ \E j \in LinesAt("WARN") : out[j].idx = e.idx /\ out[j].n = 3 - e.k

(***************************************************************************)
(* C12: when the playlist cannot be retrieved the run fails fatally after  *)
(* exactly one GET of the playlist URL: no retry, no key is resolved, no   *)
(* segment is fetched, and neither a staging directory nor an output file  *)
(* is created.                                                             *)
(***************************************************************************)
GetsAt == {i \in 1..Len(out) : out[i].ev = "get"}

C12_PlaylistFetchIsFatal ==
    /\ \A i \in GetsAt :
          out[i].tag = "playlist" =>
              /\ out[i].k = 1
              /\ out[i].what = m3u8_url
              /\ GetsAt = {i}
              /\ lineNo <= 1
    /\ GetFailed("playlist") =>
          /\ pc = "Failed"
          /\ exit_code = 1
          /\ key = None
          /\ iv = None
          /\ ts_urls = <<>>
          /\ fetched = <<>>
          /\ files = start.files
          /\ dirs = start.dirs
          /\ RunOver

C12_Witness ==
    /\ GetFailed("playlist")
    /\ files[output] = None
    /\ dirs[Td] = None

(***************************************************************************)
(* C13: when key resolution fails (the key URI is a network address whose  *)
(* fetch fails, or an inline value that is not valid hexadecimal) the run  *)
(* aborts during parsing, before any segment is fetched and before the     *)
(* staging directory is created.                                           *)
(***************************************************************************)

\* the playlist served has a key directive with a malformed URI
HasMalformedKey == \E j \in 1..Len(playlist) : Malformed(playlist[j])

C13_KeyFailureAbortsInParsing ==
    /\ GetFailed("key") =>
          /\ pc = "Failed"
          /\ exit_code = 1
          /\ RunOver
    /\ (GetFailed("key") \/ HasMalformedKey) =>
          /\ fetched = <<>>
          /\ dirs = start.dirs
          /\ pc \in {"Created", "Parsing", "Failed"}
    /\ \A j \in 1..Len(playlist) : Malformed(playlist[j]) => lineNo <= j

\* the same of the directives whose URI is not their first attribute: of these
\* it holds
UriIsFirst(entry) == entry.kind = "key" /\ Len(entry.attrs) > 0 /\ entry.attrs[1].name = "URI"

C13_UriNotFirst ==
    (\A j \in 1..Len(playlist) : ~UriIsFirst(playlist[j])) =>
        /\ GetFailed("key") =>
              /\ pc = "Failed"
              /\ exit_code = 1
              /\ RunOver
        /\ (GetFailed("key") \/ HasMalformedKey) =>
              /\ fetched = <<>>
              /\ dirs = start.dirs
              /\ pc \in {"Created", "Parsing", "Failed"}
        /\ \A j \in 1..Len(playlist) : Malformed(playlist[j]) => lineNo <= j

(***************************************************************************)
(* C14: the output file is opened for writing only after every segment of  *)
(* the playlist has been staged; in a run that aborts in parsing or in     *)
(* downloading the output path is never opened or written.                 *)
(***************************************************************************)

\* every segment of the playlist is in the staging directory as this run
\* fetched and decrypted it
AllStaged ==
    /\ Len(fetched) = Len(ts_urls)
    /\ IsSome(dirs[Td])
    /\ \A j \in 1..Len(ts_urls) :
          /\ StageName(j) \in DOMAIN Staging
          /\ Staging[StageName(j)] = StagedBytes(fetched[j])

C14_OutputOpenedAfterStaging ==
    /\ pc \in {"Created", "Parsing", "Downloading"} => files = start.files
    /\ (pc = "Failed" /\ Traceback("OSError") \notin Events) => files = start.files
    /\ pc = "Merging" => (AllStaged /\ idx = Len(ts_urls) + 1)
    /\ files # start.files => (Len(fetched) = Len(ts_urls) /\ idx = Len(ts_urls) + 1)

\* the output has just been written, all of two segments staged
C14_Witness ==
    /\ pc = "Merging"
    /\ Len(ts_urls) = 2
    /\ files # start.files

\* a run that aborted at its second segment: no output
C14_WitnessAbort ==
    /\ pc = "Failed"
    /\ idx = 2
    /\ files[output] = None

(***************************************************************************)
(* C15: the orchestrator's state only advances along Created -> Parsing -> *)
(* Downloading -> Merging -> Cleaning -> Done, or from a state that is not *)
(* terminal to Failed; no state is skipped or revisited; Done and Failed   *)
(* are terminal: nothing is requested or written after either.             *)
(***************************************************************************)
Chain ==
    {<<"Created", "Parsing">>, <<"Parsing", "Downloading">>, <<"Downloading", "Merging">>,
     <<"Merging", "Cleaning">>, <<"Cleaning", "Done">>}

Terminal == {"Done", "Failed"}

\* a step of one invocation (runs counts the invocations)
C15_Advance ==
    runs' = runs =>
        /\ \/ pc' = pc
           \/ <<pc, pc'>> \in Chain
           \/ (pc \notin Terminal /\ pc' = "Failed")
        /\ pc \in Terminal => UNCHANGED <<pc, out, files, dirs, fetched, exit_code>>
        /\ exit_code # -1 <=> pc \in Terminal

C15_StateOnlyAdvances == [][C15_Advance]_vars

C15_Witness ==
    /\ pc = "Done"
    /\ Len(ts_urls) = 1
    /\ IsSome(key)

(***************************************************************************)
(* C16: segments are processed one at a time in ascending index order: the *)
(* first GET of segment i+1 happens only after segment i was fetched,      *)
(* decrypted if a key is active, written to its staging file and its       *)
(* success line logged; so the success lines appear in index order.        *)
(***************************************************************************)

\* the segments whose first GET is among some events, and those whose success
\* line is
FirstGets(evs) ==
    {evs[i].idx : i \in {m \in 1..Len(evs) :
                            evs[m].ev = "get" /\ evs[m].tag = "segment" /\ evs[m].k = 1}}
SegDone(evs) ==
    {evs[i].idx : i \in {m \in 1..Len(evs) : evs[m].ev = "log" /\ evs[m].what = "seg_done"}}

C16_Step ==
    runs' = runs =>
        /\ \A i \in FirstGets(out') :
              /\ i = idx
              /\ Len(fetched) = i - 1
              /\ \A j \in 1..(i - 1) :
                    /\ StageName(j) \in DOMAIN Staging
                    /\ Staging[StageName(j)] = StagedBytes(fetched[j])
        /\ \A i \in SegDone(out') :
              /\ i = idx
              /\ idx' = i + 1
              /\ Len(fetched') = i
              /\ StageName(i) \in DOMAIN Staging'
              /\ Staging'[StageName(i)] = StagedBytes(fetched'[i])
              /\ \E g \in 1..Len(out') :
                    /\ out'[g].ev = "get"
                    /\ out'[g].n = 1
                    /\ out'[g].idx = i
                    /\ \A m \in 1..Len(out') : out'[m].what = "seg_done" => g < m
        /\ idx' # idx => (idx' = idx + 1 /\ (idx = 0 \/ idx \in SegDone(out')))

C16_OneAtATimeInOrder == [][C16_Step]_vars

\* the second segment's success line, with a key active
C16_Witness ==
    /\ 2 \in SegDone(out)
    /\ Truthy(key)
    /\ {StageName(1), StageName(2)} \subseteq DOMAIN Staging

(***************************************************************************)
(* C17: the output of a successful run does not depend on how many GETs    *)
(* (1, 2 or 3) each segment needed: over the same playlist and the same    *)
(* payloads it is the output of the run in which no GET fails.             *)
(***************************************************************************)

\* what this run has fetched, by staging name
OwnStaged == {StageName(j) : j \in 1..Len(fetched)}

\* the staging directory as the run without a failed GET leaves it before the
\* merge: what it found, with each segment fetched laid over it
BaselineStaging ==
    [n \in DOMAIN StagingAtStart \cup OwnStaged |->
        IF n \in OwnStaged
        THEN StagedBytes(fetched[CHOOSE j \in 1..Len(fetched) : StageName(j) = n])
        ELSE StagingAtStart[n]]

\* its output
BaselineOutput == Concat(BaselineStaging, SortedNames(DOMAIN BaselineStaging))

C17_OutputIndependentOfAttempts ==
    /\ (pc = "Downloading" /\ idx > Len(ts_urls)) =>
          (Len(fetched) = Len(ts_urls) /\ Staging = BaselineStaging)
    /\ pc \in {"Merging", "Cleaning", "Done"} => files[output] = Some(BaselineOutput)

\* both segments staged, the second at its third GET
C17_Witness ==
    /\ pc = "Downloading"
    /\ Len(ts_urls) = 2
    /\ idx = 3
    /\ \E e \in SegmentGets : e.n = 1 /\ e.k = 3 /\ e.idx = 2
    /\ Staging = BaselineStaging

(***************************************************************************)
(* Two instances of the program at once, each with its own output path,    *)
(* on one filesystem.  The run of one is followed step by step; of the     *)
(* other, only what its download() does to the filesystem is seen:         *)
(* temp_dir.mkdir(exist_ok=True) and temp_file.write_bytes(data).          *)
(***************************************************************************)

\* two output paths beside each other: -o takes "mp4/ts"
OutputPair == {"a.mp4", "a.ts"}

\* what the other instance stages
OtherPayloads == {<<1>>}

InitShared ==
    \E pl \in Docs, o \in OutputPair :
        LET obj == NewObject(M3u8Url, o, None)
            fs == [files |-> [p \in OutputPair |-> None],
                   dirs |-> [d \in {TempDir(p) : p \in OutputPair} |-> None]]
        IN  /\ pc = "Created"
            /\ runs = 1
            /\ m3u8_url = obj.m3u8_url
            /\ output = obj.output
            /\ cli_key = None
            /\ playlist = pl
            /\ lines = <<>>
            /\ lineNo = 0
            /\ key = obj.key
            /\ iv = obj.iv
            /\ ts_urls = obj.ts_urls
            /\ idx = 0
            /\ retry = 0
            /\ fetched = <<>>
            /\ files = fs.files
            /\ dirs = fs.dirs
            /\ exit_code = -1
            /\ out = <<>>
            /\ start = fs

\* the other instance, whose output path is another one, stages a segment
Other_Stage ==
    /\ pc \in {"Parsing", "Downloading", "Merging"}
    /\ \E o2 \in DOMAIN files \ {output}, j \in 1..MaxSegs, body \in OtherPayloads :
          dirs' = [dirs EXCEPT ![TempDir(o2)] =
                      Some((StageName(j) :> body) @@ (IF IsSome(@) THEN Get(@) ELSE EmptyDir))]
    /\ UNCHANGED <<pc, runs, m3u8_url, output, cli_key, playlist, lines, lineNo, key, iv,
                   ts_urls, idx, retry, fetched, files, exit_code, out, start>>

NextShared ==
    \/ Parse_Get
    \/ Parse_Skip
    \/ Parse_Segment
    \/ Parse_KeyRemote
    \/ Parse_KeyInline
    \/ Download_Begin
    \/ Attempt_Fail
    \/ Attempt_Ok
    \/ Merge
    \/ Clean
    \/ Finish
    \/ Other_Stage

SpecShared == InitShared /\ [][NextShared]_vars

(***************************************************************************)
(* C18: the staging directory belongs to one instance for the time of its  *)
(* run: two instances running at once with different output paths never   *)
(* read, write or delete the same staging directory or staging file.       *)
(***************************************************************************)

\* every entry of this instance's staging directory is one it found there or
\* one it staged itself
C18_StagingOwnedByOneInstance ==
    /\ IsSome(dirs[Td]) =>
          \A n \in DOMAIN Staging :
              \/ (n \in DOMAIN StagingAtStart /\ Staging[n] = StagingAtStart[n])
              \/ \E j \in 1..Len(fetched) : n = StageName(j) /\ Staging[n] = StagedBytes(fetched[j])
    /\ pc = "Done" => files[output] = Some(Flatten([j \in 1..Len(fetched) |-> StagedBytes(fetched[j])]))

\* the same of the staging files alone, in the runs of one instance after
\* another: there every entry is the run's own or one it found
C18_AloneOnTheFilesystem ==
    IsSome(dirs[Td]) =>
        \A n \in DOMAIN Staging :
            \/ (n \in DOMAIN StagingAtStart /\ Staging[n] = StagingAtStart[n])
            \/ \E j \in 1..Len(fetched) : n = StageName(j) /\ Staging[n] = StagedBytes(fetched[j])

(***************************************************************************)
(* C19: in one run the parser invokes key resolution zero times or once,   *)
(* so at most one GET of a key resource is issued, however many key        *)
(* directives the playlist has.                                            *)
(***************************************************************************)

\* the key directives parse() has been through whose URI is a network address
RemoteKeysSeen ==
    {j \in KeysSeen : HasAttr(playlist[j].attrs, "URI")
                      /\ StartsWith(AttrValue(playlist[j].attrs, "URI"), "http")}

\* a GET of a key resource has just been answered
KeyFetched == \E e \in Events : e.ev = "get" /\ e.tag = "key" /\ e.n = 1

C19_KeyResolvedAtMostOnce ==
    /\ Cardinality(KeysSeen) <= 1
    /\ KeyFetched => Cardinality(RemoteKeysSeen) <= 1

\* the part about the GETs alone
C19_OneKeyFetch == KeyFetched => Cardinality(RemoteKeysSeen) <= 1

\* what does hold: one resolution for each key directive
C19_OncePerDirective ==
    /\ KeyFetched => (lineNo - 1) \in RemoteKeysSeen
    /\ \A e \in Events : (e.ev = "log" /\ e.what = "key_info") => (lineNo - 1) \in KeysSeen

(***************************************************************************)
(* One run over playlists with several key directives, before the segment  *)
(* lines and among them                                                    *)
(***************************************************************************)

\* a playlist whose key changes after its first segment
Rotating(k1, k2) ==
    <<TagLine("#EXTM3U"), k1, SegLine(SegName(1)), k2, SegLine(SegName(2)),
      TagLine("#EXT-X-ENDLIST")>>

KeyDocs ==
    {Playlist(keys, [i \in 1..n |-> SegLine(SegName(i))]) :
        keys \in {<<KeyInline>>, <<KeyInline, KeyInlineIv>>, <<KeyInlineIv, KeyInline>>,
                  <<KeyRemote, KeyInlineIv>>},
        n \in 1..MaxSegs}
    \cup {Rotating(KeyInline, KeyInlineIv), Rotating(KeyInlineIv, KeyInline)}

InitKeys == InitWith(KeyDocs, {M3u8Url})

NextKeys ==
    \/ Parse_Get
    \/ Parse_Skip
    \/ Parse_Segment
    \/ Parse_KeyRemote
    \/ Parse_KeyInline
    \/ Download_Begin
    \/ Attempt_Fail
    \/ Attempt_Ok
    \/ Merge
    \/ Clean
    \/ Finish

SpecKeys == InitKeys /\ [][NextKeys]_vars

(***************************************************************************)
(* C20: of several key directives each replaces the key parsed before, so  *)
(* one key/IV pair is active when downloading begins, that of the last     *)
(* directive before the segment lines, and that pair, unchanged, decrypts  *)
(* every segment of the run.                                               *)
(***************************************************************************)

\* the key and the IV an inline directive states
StatedKey(entry) == FromHex(AttrValue(entry.attrs, "URI"))
StatedIv(entry) ==
    IF HasAttr(entry.attrs, "IV")
    THEN FromHex(SubSeq(AttrValue(entry.attrs, "IV"), 3, Len(AttrValue(entry.attrs, "IV"))))
    ELSE StatedKey(entry)

KeysAt == {j \in 1..Len(playlist) : playlist[j].kind = "key"}
SegmentsAt == {j \in 1..Len(playlist) : playlist[j].kind = "seg"}

\* the key directives before the segment lines, and the last of them
KeysBeforeSegments == {j \in KeysAt : \A m \in SegmentsAt : j < m}
LastKeyBeforeSegments == playlist[Max(KeysBeforeSegments)]

\* the download has begun
Downloaded == pc \in {"Downloading", "Merging", "Cleaning", "Done"} \/ FailedAtSegment

\* the pair of a directive is the active one and has decrypted what is staged
PairInForce(entry) ==
    /\ key = Some(StatedKey(entry))
    /\ iv = Some(StatedIv(entry))
    /\ pc = "Downloading" =>
          \A j \in 1..(idx - 1) :
              Staging[StageName(j)] = Unpad(CbcDecrypt(StatedKey(entry), StatedIv(entry), fetched[j]))

C20_LastKeyBeforeSegmentsDecrypts ==
    (Downloaded /\ KeysBeforeSegments # {}) => PairInForce(LastKeyBeforeSegments)

\* what does hold: the pair of the last directive of the whole playlist
C20_LastKeyOfThePlaylist ==
    (Downloaded /\ KeysAt # {}) => PairInForce(playlist[Max(KeysAt)])

(***************************************************************************)
(* One run, on a filesystem where the output path may hold a file already  *)
(* and the staging directory may exist, empty                              *)
(***************************************************************************)

\* key directives with a key of 8 bytes and with an IV of 2 bytes
KeyShort == KeyLine(<<Method, Attr("URI", "1011121314151617", TRUE)>>)
KeyShortIv ==
    KeyLine(<<Method, Attr("URI", KeyHexText, TRUE), Attr("IV", "0x0001", FALSE)>>)

RunDocs ==
    {Playlist(keys, [i \in 1..n |-> SegLine(SegName(i))]) :
        keys \in {<<>>, <<KeyInline>>, <<KeyRemote>>, <<KeyShort>>, <<KeyShortIv>>},
        n \in 0..MaxSegs}

\* what the output path holds before the run, if anything
OldOutput == <<5, 6>>

InitRun ==
    \E pl \in RunDocs, o \in Outputs, f \in {None, Some(OldOutput)}, d \in {None, Some(EmptyDir)} :
        LET obj == NewObject(M3u8Url, o, None)
            fs == [files |-> [p \in Outputs |-> f], dirs |-> [t \in TempDirs |-> d]]
        IN  /\ pc = "Created"
            /\ runs = 1
            /\ m3u8_url = obj.m3u8_url
            /\ output = obj.output
            /\ cli_key = None
            /\ playlist = pl
            /\ lines = <<>>
            /\ lineNo = 0
            /\ key = obj.key
            /\ iv = obj.iv
            /\ ts_urls = obj.ts_urls
            /\ idx = 0
            /\ retry = 0
            /\ fetched = <<>>
            /\ files = fs.files
            /\ dirs = fs.dirs
            /\ exit_code = -1
            /\ out = <<>>
            /\ start = fs

NextRun ==
    \/ Parse_Get
    \/ Parse_Skip
    \/ Parse_Segment
    \/ Parse_KeyRemote
    \/ Parse_KeyInline
    \/ Download_Begin
    \/ Attempt_Fail
    \/ Attempt_Ok
    \/ Merge
    \/ Clean
    \/ Finish

SpecRun == InitRun /\ [][NextRun]_vars

(***************************************************************************)
(* C21: whenever the decryptor is invoked the key and the IV are each 16   *)
(* bytes long; a key directive whose inline value, fetched key or explicit *)
(* IV has another length never reaches the download with an active key.    *)
(***************************************************************************)

\* _decrypt has just been called: a segment fetched while a key is active
DecryptorInvoked == Truthy(key) /\ \E e \in SegmentGets : e.n = 1

C21_KeyAndIvAre16Bytes ==
    /\ (Downloaded /\ Truthy(key)) => (Len(Get(key)) = 16 /\ Len(Get(iv)) = 16)
    /\ DecryptorInvoked => (Len(Get(key)) = 16 /\ Len(Get(iv)) = 16)

\* the part about the decryptor alone
C21_DecryptorGets16Bytes ==
    DecryptorInvoked => (Len(Get(key)) = 16 /\ Len(Get(iv)) = 16)

\* what does hold: with a key or an IV of another length the first call of the
\* decryptor ends the run
C21_OtherLengthsFailAtFirstSegment ==
    (DecryptorInvoked /\ ~(Len(Get(key)) \in {16, 24, 32} /\ Len(Get(iv)) = 16)) =>
        (pc = "Failed" /\ idx = 1 /\ exit_code = 1)

(***************************************************************************)
(* C22: the parser extracts the URI and the IV attribute of a key          *)
(* directive whatever their position in the attribute list, the first      *)
(* position after the directive marker included, and gives their values    *)
(* without the surrounding quotes.                                         *)
(***************************************************************************)

\* uri_part and iv_part are the values of the attributes of the directive
Extracted(line, entry) ==
    /\ HasAttr(entry.attrs, "URI") => KeyParts(line).uri = AttrValue(entry.attrs, "URI")
    /\ HasAttr(entry.attrs, "IV") => KeyParts(line).iv = AttrValue(entry.attrs, "IV")

C22_AttributesAtAnyPosition == \A j \in KeysSeen : Extracted(lines[j], playlist[j])

\* what does hold: the same of the attributes that are not the first of the list
ExtractedAfterFirst(line, entry) ==
    \A a \in 2..Len(entry.attrs) :
        /\ entry.attrs[a].name = "URI" => KeyParts(line).uri = entry.attrs[a].value
        /\ entry.attrs[a].name = "IV" => KeyParts(line).iv = entry.attrs[a].value

C22_AfterTheFirstAttribute == \A j \in KeysSeen : ExtractedAfterFirst(lines[j], playlist[j])

(***************************************************************************)
(* C23: the bytes fetched for a segment go through the decryptor if and    *)
(* only if the playlist had a key directive: without one the bytes staged  *)
(* are the payload as fetched, with one they are the payload decrypted and *)
(* unpadded, for every segment.                                            *)
(***************************************************************************)

\* the bytes staged for segment j are the payload decrypted and unpadded
StagedDecrypted(j) ==
    /\ Truthy(key)
    /\ Staging[StageName(j)] = Unpad(CbcDecrypt(Get(key), Get(iv), fetched[j]))

C23_DecryptedIffKeyDirective ==
    pc = "Downloading" =>
        \A j \in 1..(idx - 1) :
            IF KeysAt # {} THEN StagedDecrypted(j) ELSE Staging[StageName(j)] = fetched[j]

\* what does hold: the same with "the key resolved is not empty" for "the
\* playlist had a key directive"
C23_DecryptedIffKeyNotEmpty ==
    pc = "Downloading" =>
        \A j \in 1..(idx - 1) :
            IF IsSome(key) /\ Len(Get(key)) > 0
            THEN StagedDecrypted(j)
            ELSE Staging[StageName(j)] = fetched[j]

(***************************************************************************)
(* The staging names of a long playlist.  The download loop is taken up at *)
(* segment idx of a playlist with no key directive, for a stretch of at    *)
(* most MaxWindow segments, and the merge follows.  Only the stretch is    *)
(* kept in the state: the URLs and the staging files of the segments       *)
(* before it are left out, which does not change the order sorted() gives  *)
(* to the files of the stretch.                                            *)
(***************************************************************************)

MaxWindow == 3

\* the index the stretch begins at
WindowStarts == {1, 9, 99, 999, 9999, 99999, 999999}

WindowPayloads == {<<1>>, <<2>>}

InitNames ==
    \E i \in WindowStarts, o \in Outputs :
        LET obj == NewObject(M3u8Url, o, None)
            fs == [files |-> [p \in Outputs |-> None], dirs |-> [t \in TempDirs |-> None]]
        IN  /\ pc = "Downloading"
            /\ runs = 1
            /\ m3u8_url = obj.m3u8_url
            /\ output = obj.output
            /\ cli_key = None
            /\ playlist = <<>>
            /\ lines = <<>>
            /\ lineNo = 0
            /\ key = obj.key
            /\ iv = obj.iv
            /\ ts_urls = obj.ts_urls
            /\ idx = i
            /\ retry = RetryBudget
            /\ fetched = <<>>
            /\ files = fs.files
            /\ dirs = [fs.dirs EXCEPT ![TempDir(o)] = Some(EmptyDir)]
            /\ exit_code = -1
            /\ out = <<>>
            /\ start = fs

\* one turn of the loop of download() whose first GET succeeds, self.key being
\* None: the payload is written under f"{idx:06}.ts"
Stage_At ==
    /\ pc = "Downloading"
    /\ Len(fetched) < MaxWindow
    /\ \E body \in WindowPayloads :
          /\ fetched' = Append(fetched, body)
          /\ dirs' = WriteStage(dirs, StageName(idx), body)
          /\ out' = <<GetEv("segment", "", idx, 1, TRUE), Succ("seg_done", idx, 0)>>
    /\ idx' = idx + 1
    /\ UNCHANGED <<pc, runs, m3u8_url, output, cli_key, playlist, lines, lineNo, key, iv,
                   ts_urls, retry, files, exit_code, start>>

NextNames ==
    \/ Stage_At
    \/ Merge

SpecNames == InitNames /\ [][NextNames]_vars

(***************************************************************************)
(* C24: segment i is staged under i zero-padded to 6 digits, and the       *)
(* ascending order of the file names the merge uses is the ascending order *)
(* of the indices for all segments of a run, so that the merge appends     *)
(* each staged segment once, in playlist order.                            *)
(***************************************************************************)

\* the indices of the segments staged in the stretch
WindowIndices == (idx - Len(fetched))..(idx - 1)

C24_NameOrderIsIndexOrder ==
    /\ \A i, j \in WindowIndices : i < j => StrLess(StageName(i), StageName(j))
    /\ pc = "Merging" => files[output] = Some(Flatten(fetched))

\* what does hold: the same of the indices of at most 6 digits
C24_UpToSixDigits ==
    (\A i \in WindowIndices : i <= 999999) =>
        /\ \A i, j \in WindowIndices : i < j => StrLess(StageName(i), StageName(j))
        /\ pc = "Merging" => files[output] = Some(Flatten(fetched))

(***************************************************************************)
(* C25: in the retry loop of one segment the k-th failed attempt (k = 1,   *)
(* 2, 3) logs a warning with 3-k attempts remaining, and there is a backoff*)
(* of 1 second exactly between consecutive attempts: after the third       *)
(* failed attempt the run aborts at once, with no backoff before the abort.*)
(***************************************************************************)

SleepsAt == {i \in 1..Len(out) : out[i].ev = "sleep"}

\* the failed GET at position i of the step is followed by its warning
WarnedAfter(i) ==
    \E w \in LinesAt("WARN") :
        /\ w > i
        /\ out[w].idx = out[i].idx
        /\ out[w].n = RetryBudget - out[i].k

FailedGetsAt == {i \in GetsAt : out[i].tag = "segment" /\ out[i].n = 0}

C25_BackoffBetweenAttempts ==
    \A i \in FailedGetsAt :
        /\ out[i].k \in 1..3
        /\ WarnedAfter(i)
        /\ IF out[i].k < 3
           THEN /\ Cardinality(SleepsAt) = 1
                /\ \A z \in SleepsAt : z > i /\ out[z].n = 1
                /\ pc = "Downloading"
                /\ ExitsAt = {}
           ELSE /\ SleepsAt = {}
                /\ pc = "Failed"
                /\ ExitsAt # {}

\* what does hold: the backoff follows every failed attempt, the third too,
\* where it comes before the error line and the exit
C25_BackoffAfterEveryFailure ==
    \A i \in FailedGetsAt :
        /\ out[i].k \in 1..3
        /\ WarnedAfter(i)
        /\ Cardinality(SleepsAt) = 1
        /\ \A z \in SleepsAt : z > i /\ out[z].n = 1
        /\ IF out[i].k < 3
           THEN pc = "Downloading" /\ ExitsAt = {}
           ELSE /\ pc = "Failed"
                /\ \A z \in SleepsAt, x \in ExitsAt \cup LinesAt("ERROR") : z < x
                /\ ExitsAt # {}

(***************************************************************************)
(* C26: over runs with the same output path, when an earlier run aborted   *)
(* and left staging files, a later successful run over a playlist of N     *)
(* segments still gives as output the concatenation of that run's own N    *)
(* staged segments: the files the earlier run left (those of indices       *)
(* above N, say) are not merged into it.                                   *)
(***************************************************************************)

\* the invocation found staging files of an earlier one
FoundStale == runs > 1 /\ DOMAIN StagingAtStart # {}

\* what this run has staged, in playlist order
OwnSegments == [j \in 1..Len(fetched) |-> StagedBytes(fetched[j])]

C26_StaleStagingNotMerged ==
    (pc = "Done" /\ FoundStale) =>
        /\ Len(fetched) = Len(ts_urls)
        /\ files[output] = Some(Flatten(OwnSegments))

\* what does hold: the same when this run has staged every name it found
C26_WhenAllOverwritten ==
    (pc = "Done" /\ FoundStale /\ DOMAIN StagingAtStart \subseteq OwnStaged) =>
        /\ Len(fetched) = Len(ts_urls)
        /\ files[output] = Some(Flatten(OwnSegments))

(***************************************************************************)
(* C27: from a staging directory that is absent or empty at the start, at  *)
(* every point of the download the staging files are exactly those of the  *)
(* segments 1..k, k being the number of segments completed; a file is      *)
(* written only once its segment is fetched (and decrypted, with an active *)
(* key), and no file is rewritten or deleted before the cleanup.           *)
(***************************************************************************)

\* the download is under way or has ended, and the cleanup has not run
InDownload == pc \in {"Downloading", "Merging"} \/ FailedAtSegment

\* segment j was fetched and, where a key is active, decrypted
Completed(j) ==
    /\ j <= Len(fetched)
    /\ Truthy(key) => DecryptOk(Get(key), Get(iv), fetched[j])

C27_Prefix ==
    (InDownload /\ StagingAtStart = EmptyDir) =>
        /\ IsSome(dirs[Td])
        /\ idx - 1 <= Len(ts_urls)
        /\ DOMAIN Staging = {StageName(j) : j \in 1..(idx - 1)}
        /\ Cardinality(DOMAIN Staging) = idx - 1
        /\ \A j \in 1..(idx - 1) :
              /\ Completed(j)
              /\ Staging[StageName(j)] = StagedBytes(fetched[j])

\* a step before the cleanup keeps every staging file as it is
C27_Keep ==
    (IsSome(dirs[Td]) /\ pc' # "Cleaning" /\ runs' = runs) =>
        /\ IsSome(dirs'[Td])
        /\ \A n \in DOMAIN Staging :
              /\ n \in DOMAIN Get(dirs'[Td])
              /\ Get(dirs'[Td])[n] = Staging[n]

C27_StagingIsContiguousPrefix == []C27_Prefix /\ [][C27_Keep]_vars

\* two segments staged under an active key, in a directory found empty
C27_Witness ==
    /\ pc = "Downloading"
    /\ idx = 3
    /\ Truthy(key)
    /\ start.dirs[Td] = Some(EmptyDir)
    /\ DOMAIN Staging = {StageName(1), StageName(2)}

(***************************************************************************)
(* One run in which every request is answered, with success or failure,    *)
(* and the process keeps running until it ends                             *)
(***************************************************************************)

SpecRunFair == SpecRun /\ WF_vars(NextRun)

(***************************************************************************)
(* C28: when every request returns, every run comes to Done or Failed: for *)
(* a playlist with N segments and K key directives it issues at most       *)
(* 1 + K + 3N requests and does not loop forever, even when every fetch    *)
(* fails.                                                                  *)
(***************************************************************************)

\* the requests 1 + K + 3N allows that the run has not yet used: the GET of the
\* playlist, one GET for each key directive not yet parsed, RetryBudget GETs for
\* each segment not yet begun and what is left of the budget of the current one
RequestsLeft ==
    LET k == Cardinality({j \in KeysAt : j >= lineNo})
        n == Cardinality(SegmentsAt)
    IN  CASE pc = "Created" -> 1 + Cardinality(KeysAt) + RetryBudget * n
          [] pc = "Parsing" -> k + RetryBudget * n
          [] pc = "Downloading" /\ idx <= Len(ts_urls) ->
                 RetryBudget * (Len(ts_urls) - idx) + retry
          [] OTHER -> 0

\* the GETs of a step
Requests(events) == Cardinality({i \in 1..Len(events) : events[i].ev = "get"})

\* a step of the run uses up as many of the requests left as it issues
C28_Spend ==
    /\ Requests(out') <= RequestsLeft - RequestsLeft'
    /\ RequestsLeft' >= 0

C28_Terminates ==
    /\ [][C28_Spend]_vars
    /\ <>(pc \in Terminal)

\* a run that has issued all of its 1 + K + 3N requests but one and ended: a
\* key fetched, the first segment fetched at the third GET, the second not
C28_Witness ==
    /\ FetchExhausted
    /\ idx = 2
    /\ Len(ts_urls) = 2
    /\ RemoteKeysSeen # {}
    /\ pc \in Terminal

(***************************************************************************)
(* C29: a run that fails while parsing or downloading leaves a file that   *)
(* was at the output path as it was, byte for byte; the output path is     *)
(* truncated and rewritten only once the merge starts.                     *)
(***************************************************************************)

\* there was a file at the output path when the run began
HadOutput == IsSome(start.files[output])

\* the run has failed before the merge
FailedBeforeMerge ==
    pc = "Failed" /\ (lineNo <= Len(lines) \/ Len(lines) = 0 \/ FailedAtSegment)

C29_OutputKeptUntilMerge ==
    HadOutput =>
        /\ pc \in {"Created", "Parsing", "Downloading"} => files[output] = start.files[output]
        /\ FailedBeforeMerge => files[output] = start.files[output]
        /\ pc = "Failed" => FailedBeforeMerge
        /\ pc \in {"Merging", "Cleaning", "Done"} =>
              files[output] = Some(Flatten([j \in 1..Len(ts_urls) |-> StagedBytes(fetched[j])]))

\* the file was there, one segment is staged, and the run has failed at the next
C29_Witness ==
    /\ start.files[output] = Some(OldOutput)
    /\ FailedAtSegment
    /\ idx = 2
    /\ StageName(1) \in DOMAIN Staging
    /\ files[output] = Some(OldOutput)

(***************************************************************************)
(* C30: for a playlist that is retrieved and has no segment lines the run  *)
(* issues no request for a segment, goes through Downloading, Merging and  *)
(* Cleaning and ends in Done, with an empty output file and no staging     *)
(* directory left: it is not reported as a failure.                        *)
(***************************************************************************)

\* the playlist served has no segment line
NoSegments == SegmentsAt = {}

\* the state the run is in follows from where it stands in the pipeline
PipelineOrder ==
    /\ pc = "Merging" => IsSome(files[output]) /\ IsSome(dirs[Td])
    /\ pc \in {"Cleaning", "Done"} => IsSome(files[output]) /\ dirs[Td] = None
    /\ pc = "Failed" => (lineNo <= Len(lines) \/ Len(lines) = 0)

C30_EmptyPlaylistEndsInDone ==
    NoSegments =>
        /\ SegmentGets = {}
        /\ fetched = <<>>
        /\ ts_urls = <<>>
        /\ PipelineOrder
        /\ pc \in {"Merging", "Cleaning", "Done"} => files[output] = Some(<<>>)
        /\ pc = "Done" => exit_code = 0

\* what does hold: the same of the runs that find no staging file
C30_FromNoStagingFiles ==
    (NoSegments /\ StagingAtStart = EmptyDir) =>
        /\ SegmentGets = {}
        /\ fetched = <<>>
        /\ ts_urls = <<>>
        /\ PipelineOrder
        /\ pc \in {"Merging", "Cleaning", "Done"} => files[output] = Some(<<>>)
        /\ pc = "Done" => exit_code = 0

=============================================================================
